---------------------------- MODULE Spec2Model ----------------------------
(***************************************************************************)
(* A model of the AIOStreams core: the Torznab result normaliser           *)
(* (TorznabAddon._searchTorrents / extractInfoHash), the identifier        *)
(* resolver (IdParser) and the preset address construction (CustomPreset,  *)
(* JackettPreset), the database singleton and its transactions (DB) and    *)
(* the GDrive authorisation route.                                         *)
(*                                                                         *)
(* Conventions.  A JavaScript string is the tuple of its characters        *)
(* (<<"t","t","1">> is 'tt1'), so that matching, searching and formatting  *)
(* are computed character by character.  A string-or-undefined value uses  *)
(* Undefined, a tuple that is no string.  A property an object may lack is *)
(* a field that may be missing from the record's DOMAIN.  A value whose    *)
(* JavaScript type matters (typeof) is a tagged record, see JsNum.         *)
(***************************************************************************)
EXTENDS Integers, Sequences, FiniteSets, TLC

VARIABLES
    \* TorznabAddon._searchTorrents, one invocation
    pc,            \* "start" | "loop" | "done" | "threw"
    results,       \* what performSearch returned
    idx,           \* position of the for-of loop in results
    seenTorrents,  \* the Set<string> of dedup keys
    torrents,      \* the UnprocessedTorrent[] built so far / returned
    \* IdParser.parse and ParsedId.generator, one round trip
    idPc,          \* "off" | "input" | "parsed" | "generated" | "reparsed"
    stremioId,     \* the string given to parse
    mediaType,     \* the media type given to parse
    parsedId,      \* what parse returned
    generated,     \* what parsedId.generator returned
    reparsedId,    \* what parse returned for the generated string
    \* one call of a preset's static method
    presetPc,      \* "off" | "input" | "done"
    preset,        \* "custom" | "jackett": the preset called
    env,           \* Env: the environment defaults
    options,       \* the options argument
    outcome,       \* what the call returned or threw
    \* TorznabAddon._searchTorrents, two invocations side by side
    callPc,        \* per invocation: "off" | "start" | "loop" | "done" | "threw"
    callResults,   \* per invocation: what performSearch returned
    callIdx,       \* per invocation: position of the loop
    callSeen,      \* per invocation: its seenTorrents set
    callTorrents,  \* per invocation: its torrents array
    \* one Postgres transaction returned by DB.begin()
    pgPc,          \* "off" | "open"
    finalised,     \* the closure variable of the transaction
    pgCalls,       \* the commit/rollback/execute calls made, with their state
    pgLog,         \* what the pooled client was asked to do, in order
    \* one SQLite transaction returned by DB.begin()
    sqlitePc,      \* "off" | "open"
    isFinalised,   \* the closure variable of the transaction
    sqliteCalls,   \* the commit/rollback/execute calls made, with their state
    sqliteLog,     \* the statements given to the database, in order
    \* the DB singleton and the initialise calls made on it
    initPc,        \* "off" | "on"
    initialised,   \* DB.initialised
    dialect,       \* DB.dialect
    uri,           \* this.uri
    db,            \* this.db
    opened,        \* the pools / database handles that open() has created
    tablesCreated, \* how many times the CREATE TABLE loop has completed
    initCalls,     \* the initialise calls made, with their position
    \* one POST to the GDrive authorisation route
    routePc,       \* "off" | "received" | "exchanging" | "done"
    body,          \* req.body
    exchanges,     \* the codes given to exchangeAuthorisationCode
    response,      \* what res.status(...).json(...) sent
    nextErrors     \* the errors handed to next()

searchVars == <<pc, results, idx, seenTorrents, torrents>>

idVars == <<idPc, stremioId, mediaType, parsedId, generated, reparsedId>>

presetVars == <<presetPc, preset, env, options, outcome>>

callVars == <<callPc, callResults, callIdx, callSeen, callTorrents>>

pgVars == <<pgPc, finalised, pgCalls, pgLog>>

sqliteVars == <<sqlitePc, isFinalised, sqliteCalls, sqliteLog>>

initVars ==
    <<initPc, initialised, dialect, uri, db, opened, tablesCreated, initCalls>>

routeVars == <<routePc, body, exchanges, response, nextErrors>>

\* the database and the route, for the actions of the other components
dbVars == <<pgVars, sqliteVars, initVars, routeVars>>

vars == <<searchVars, idVars, presetVars, callVars, dbVars>>

----------------------------------------------------------------------------
(* JavaScript values *)

Undefined == <<"undefined">>

Empty == [k \in {} |-> 0]

Truthy(s) == s # Undefined /\ s # <<>>

Get(obj, f) == IF f \in DOMAIN obj THEN obj[f] ELSE Undefined

JsUndef == [t |-> "undefined"]

JsNum(n) == [t |-> "number", v |-> n]

JsStr(s) == [t |-> "string", v |-> s]

GetJs(obj, f) == IF f \in DOMAIN obj THEN obj[f] ELSE JsUndef

----------------------------------------------------------------------------
(* Strings *)

Rep(c, n) == [i \in 1..n |-> c]

UpperChars == <<"A","B","C","D","E","F","G","H","I","J","K","L","M",
                "N","O","P","Q","R","S","T","U","V","W","X","Y","Z">>

LowerChars == <<"a","b","c","d","e","f","g","h","i","j","k","l","m",
                "n","o","p","q","r","s","t","u","v","w","x","y","z">>

\* the lower-case letter of each upper-case letter
LowerOf == [i \in 1..Len(UpperChars) |-> LowerChars[i]]

UpperIndex == [c \in {UpperChars[i] : i \in 1..Len(UpperChars)} |->
                  CHOOSE i \in 1..Len(UpperChars) : UpperChars[i] = c]

LowerChar(c) == IF c \in DOMAIN UpperIndex THEN LowerOf[UpperIndex[c]] ELSE c

\* String.prototype.toLowerCase
ToLowerCase(s) == [i \in 1..Len(s) |-> LowerChar(s[i])]

Digits == {"0","1","2","3","4","5","6","7","8","9"}

\* the class [a-f0-9] under the i flag
IsHexChar(c) == LowerChar(c) \in Digits \cup {"a","b","c","d","e","f"}

\* s has pat at position i
HasAt(s, i, pat) ==
    /\ i >= 1
    /\ i + Len(pat) - 1 <= Len(s)
    /\ \A k \in 1..Len(pat) : s[i + k - 1] = pat[k]

\* s has pat at position i, letter case ignored (a literal under the i flag)
HasAtNoCase(s, i, pat) ==
    /\ i >= 1
    /\ i + Len(pat) - 1 <= Len(s)
    /\ \A k \in 1..Len(pat) : LowerChar(s[i + k - 1]) = LowerChar(pat[k])

\* String.prototype.includes
Includes(s, pat) == \E i \in 1..(Len(s) + 1) : HasAt(s, i, pat)

Min(S) == CHOOSE m \in S : \A n \in S : m <= n

----------------------------------------------------------------------------
(* TorznabAddon.extractInfoHash and the helpers it imports *)

HashLen == 40

\* The literal part of /(?:urn(?::|%3A)btih(?::|%3A))([a-f0-9]{40})/i tried
\* at position i: the position after it, or 0 when it does not match there.
BtihPrefixEnd(s, i) ==
    IF ~HasAtNoCase(s, i, <<"u","r","n">>) THEN 0
    ELSE LET j == IF HasAt(s, i + 3, <<":">>) THEN i + 4
                  ELSE IF HasAtNoCase(s, i + 3, <<"%","3","A">>) THEN i + 6
                  ELSE 0
         IN  IF j = 0 \/ ~HasAtNoCase(s, j, <<"b","t","i","h">>) THEN 0
             ELSE IF HasAt(s, j + 4, <<":">>) THEN j + 5
             ELSE IF HasAtNoCase(s, j + 4, <<"%","3","A">>) THEN j + 7
             ELSE 0

\* the whole pattern matches at position i
BtihMatchesAt(s, i) ==
    LET h == BtihPrefixEnd(s, i)
    IN  /\ h # 0
        /\ h + HashLen - 1 <= Len(s)
        /\ \A k \in h..(h + HashLen - 1) : IsHexChar(s[k])

\* s.match(/.../i)?.[1]: capture group 1 of the leftmost match
BtihMatch(s) ==
    LET starts == {i \in 1..Len(s) : BtihMatchesAt(s, i)}
    IN  IF starts = {} THEN Undefined
        ELSE LET h == BtihPrefixEnd(s, Min(starts))
             IN  SubSeq(s, h, h + HashLen - 1)

\* utils/debrid.validateInfoHash: the hash, lower case, when it is 40
\* hexadecimal characters; undefined otherwise
validateInfoHash(h) ==
    IF /\ h # Undefined
       /\ Len(h) = HashLen
       /\ \A k \in 1..Len(h) : IsHexChar(h[k])
    THEN ToLowerCase(h)
    ELSE Undefined

TorrentType == "application/x-bittorrent"

MagnetScheme == <<"m","a","g","n","e","t",":">>

IsTorrentType(e) == "type" \in DOMAIN e /\ e.type = TorrentType

\* e.url.includes(...) on an entry of the torrent type that has no url
CallbackThrows(e) == IsTorrentType(e) /\ "url" \notin DOMAIN e

\* (e) => e.type === 'application/x-bittorrent' && e.url.includes('magnet:')
IsMagnetEnclosure(e) ==
    IsTorrentType(e) /\ "url" \in DOMAIN e /\ Includes(e.url, MagnetScheme)

\* (e) => e.type === 'application/x-bittorrent' && !e.url.includes('magnet:')
IsTorrentFile(e) ==
    IsTorrentType(e) /\ "url" \in DOMAIN e /\ ~Includes(e.url, MagnetScheme)

\* Array.prototype.find with the magnet callback: the index of the first
\* entry on which the callback returns true or throws, 0 when there is none
FindMagnet(enc) ==
    LET hits == {i \in 1..Len(enc) :
                    CallbackThrows(enc[i]) \/ IsMagnetEnclosure(enc[i])}
    IN  IF hits = {} THEN 0 ELSE Min(hits)

\* the same with the torrent-file callback
FindTorrentFile(enc) ==
    LET hits == {i \in 1..Len(enc) :
                    CallbackThrows(enc[i]) \/ IsTorrentFile(enc[i])}
    IN  IF hits = {} THEN 0 ELSE Min(hits)

\* result.enclosure.find(...) raises a TypeError: no enclosure list, or the
\* callback reaches an entry it throws on
FindThrows(result, i) ==
    \/ "enclosure" \notin DOMAIN result
    \/ (i # 0 /\ CallbackThrows(result.enclosure[i]))

\* result.enclosure.find(magnet callback)?.url
MagnetEnclosureUrl(result) ==
    LET i == FindMagnet(result.enclosure)
    IN  IF i = 0 THEN Undefined ELSE result.enclosure[i].url

\* extractInfoHash raises instead of returning: the enclosure list is only
\* consulted when the infohash and magneturl fields are both falsy
extractInfoHashThrows(result) ==
    /\ ~Truthy(Get(result, "infohash"))
    /\ ~Truthy(Get(result, "magneturl"))
    /\ FindThrows(result,
           IF "enclosure" \in DOMAIN result
           THEN FindMagnet(result.enclosure) ELSE 0)

\* a candidate that reads the magnet links before the infohash field
HashCandidate_MagnetFirst(result) ==
    LET magnet == IF Truthy(Get(result, "magneturl"))
                  THEN result.magneturl
                  ELSE MagnetEnclosureUrl(result)
        m == IF magnet = Undefined THEN Undefined ELSE BtihMatch(magnet)
    IN  IF m # Undefined THEN ToLowerCase(m)
        ELSE IF Truthy(Get(result, "infohash")) THEN result.infohash
        ELSE Undefined

\* the argument of validateInfoHash in extractInfoHash
HashCandidate(result) ==
    IF Truthy(Get(result, "infohash")) THEN result.infohash
    ELSE LET magnet == IF Truthy(Get(result, "magneturl"))
                       THEN result.magneturl
                       ELSE MagnetEnclosureUrl(result)
         IN  IF magnet = Undefined THEN Undefined
             ELSE LET m == BtihMatch(magnet)
                  IN  IF m = Undefined THEN Undefined ELSE ToLowerCase(m)

\* an extraction that skips the validation
extractInfoHash_Unvalidated(result) == HashCandidate(result)

extractInfoHash(result) == validateInfoHash(HashCandidate(result))

\* utils/debrid.extractTrackersFromMagnet: the values of the magnet URI's
\* tr query parameters, in order
extractTrackersFromMagnet(magnet) ==
    LET isParam(i) == /\ HasAt(magnet, i, <<"t","r","=">>)
                      /\ i > 1 /\ magnet[i - 1] \in {"?", "&"}
        starts == {i \in 1..Len(magnet) : isParam(i)}
        stop(i) == LET amps == {k \in (i + 3)..Len(magnet) : magnet[k] = "&"}
                   IN  IF amps = {} THEN Len(magnet) + 1 ELSE Min(amps)
        value(i) == SubSeq(magnet, i + 3, stop(i) - 1)
        nth[n \in 1..Cardinality(starts)] ==
            CHOOSE i \in starts : Cardinality({k \in starts : k < i}) = n - 1
    IN  [n \in 1..Cardinality(starts) |-> value(nth[n])]

----------------------------------------------------------------------------
(* The raw results a provider may return (the inputs of _searchTorrents) *)

MaxResults == 2

HashA == Rep("a", HashLen)

HashAUpper == Rep("A", HashLen)

HashBMixed == <<"B","3">> \o Rep("c", HashLen - 2)

Short39 == Rep("a", HashLen - 1)

NonHex == Rep("g", HashLen)

MagnetPrefix ==
    MagnetScheme \o <<"?","x","t","=","u","r","n",":","b","t","i","h",":">>

MagnetPrefixEncoded ==
    MagnetScheme \o
    <<"?","x","t","=","u","r","n","%","3","A","b","t","i","h","%","3","A">>

TrackerParams == <<"&","t","r","=","u","1","&","t","r","=","u","2">>

UrlT1 == <<"h","t","t","p",":","/","/","x","/","1">>

UrlT2 == <<"h","t","t","p",":","/","/","x","/","2">>

InfohashFields ==
    {Empty, "infohash" :> HashAUpper, "infohash" :> NonHex}

MagnetFields ==
    {Empty, "magneturl" :> (MagnetPrefix \o HashA \o TrackerParams)}

EnclosureFields ==
    {"enclosure" :> <<>>,
     "enclosure" :> <<[type |-> TorrentType, url |-> UrlT1]>>,
     "enclosure" :> <<[type |-> TorrentType,
                       url |-> MagnetPrefixEncoded \o HashBMixed]>>}

SeederFields ==
    {Empty,
     "seeders" :> JsNum(-1),
     "seeders" :> JsNum(999),
     "seeders" :> JsNum(0),
     "seeders" :> JsStr(<<"4","2">>)}

\* every combination of the hash-bearing fields, with a known seeder count
HashResults ==
    {i @@ m @@ e @@ ("seeders" :> JsNum(42)) :
        i \in InfohashFields, m \in MagnetFields, e \in EnclosureFields}

\* one result per other seeder value
SeederResults ==
    {s @@ ("enclosure" :> <<[type |-> TorrentType, url |-> UrlT2]>>) :
        s \in SeederFields}

\* results with a hash that is too short, entries of other types, several
\* entries, an empty url, or a hash in lower case
OtherResults ==
    {("magneturl" :> (MagnetPrefix \o Short39)) @@
         ("enclosure" :> <<[type |-> TorrentType, url |-> UrlT1]>>),
     "enclosure" :> <<[type |-> "application/x-nzb", url |-> UrlT1]>>,
     "enclosure" :> <<[type |-> "application/x-nzb"],
                      [type |-> TorrentType,
                       url |-> MagnetPrefix \o HashA \o TrackerParams],
                      [type |-> TorrentType, url |-> UrlT2]>>,
     "enclosure" :> <<[type |-> TorrentType, url |-> <<>>]>>,
     ("infohash" :> HashA) @@ ("enclosure" :> <<>>)
         @@ ("seeders" :> JsNum(0))}

\* results that lack the enclosure list, or the url of an entry
MalformedResults ==
    {Empty,
     "infohash" :> HashAUpper,
     "enclosure" :> <<[type |-> TorrentType]>>,
     ("magneturl" :> (MagnetPrefix \o HashA)) @@
         ("enclosure" :> <<[type |-> TorrentType]>>)}

RawResults == HashResults \cup SeederResults \cup OtherResults
                  \cup MalformedResults

ResultLists ==
    UNION {[1..n -> RawResults] : n \in 0..MaxResults}

----------------------------------------------------------------------------
(* TorznabAddon._searchTorrents *)

\* result.enclosure.find(torrent-file callback)?.url
DownloadUrl(result) ==
    LET i == FindTorrentFile(result.enclosure)
    IN  IF i = 0 THEN Undefined ELSE result.enclosure[i].url

\* the iteration raises a TypeError (in extractInfoHash or in the find of
\* the download URL)
IterationThrows(result) ==
    \/ extractInfoHashThrows(result)
    \/ FindThrows(result,
           IF "enclosure" \in DOMAIN result
           THEN FindTorrentFile(result.enclosure) ELSE 0)

\* a dedup key that prefers the download URL to the hash
DedupKey_UrlFirst(infoHash, downloadUrl) ==
    IF downloadUrl # Undefined THEN downloadUrl ELSE infoHash

\* infoHash ?? downloadUrl
DedupKey(infoHash, downloadUrl) ==
    IF infoHash # Undefined THEN infoHash ELSE downloadUrl

\* a discard test with || in place of &&
Discarded_Either(infoHash, downloadUrl) ==
    ~Truthy(infoHash) \/ ~Truthy(downloadUrl)

\* if (!infoHash && !downloadUrl) continue
Discarded(infoHash, downloadUrl) == ~Truthy(infoHash) /\ ~Truthy(downloadUrl)

\* the sources field
Sources(result) ==
    IF Truthy(Get(result, "magneturl"))
    THEN extractTrackersFromMagnet(result.magneturl)
    ELSE <<>>

\* a seeders field that tests the raw value for truthiness
Seeders_Truthy(result) ==
    LET raw == GetJs(result, "seeders")
    IN  IF raw.t = "number" /\ raw.v # 0 /\ raw.v \notin {-1, 999}
        THEN raw ELSE JsUndef

\* the seeders field
Seeders(result) ==
    LET raw == GetJs(result, "seeders")
    IN  IF raw.t = "number" /\ raw.v \notin {-1, 999} THEN raw ELSE JsUndef

\* the record pushed for a result (indexer, title, size and type are copied
\* from the result and no property below reads them)
Record(result, infoHash, downloadUrl) ==
    [hash        |-> infoHash,
     downloadUrl |-> downloadUrl,
     sources     |-> Sources(result),
     seeders     |-> Seeders(result)]

\* a loop that never records the key it has emitted
SeenAfter_Forgets(seen, key) == seen

\* seenTorrents.add(infoHash ?? downloadUrl!)
SeenAfter(seen, key) == seen \cup {key}

SearchInit ==
    /\ pc = "start"
    /\ results = <<>>
    /\ idx = 1
    /\ seenTorrents = {}
    /\ torrents = <<>>

\* const results = await this.performSearch(parsedId, metadata)
PerformSearch ==
    /\ pc = "start"
    /\ results' \in ResultLists
    /\ pc' = "loop"
    /\ UNCHANGED <<idx, seenTorrents, torrents>>
    /\ UNCHANGED <<idVars, presetVars, callVars, dbVars>>

\* one iteration of for (const result of results)
LoopStep ==
    /\ pc = "loop"
    /\ idx <= Len(results)
    /\ LET result == results[idx]
       IN  IF IterationThrows(result)
           THEN /\ pc' = "threw"
                /\ UNCHANGED <<idx, seenTorrents, torrents>>
           ELSE LET infoHash == extractInfoHash(result)
                    downloadUrl == DownloadUrl(result)
                    key == DedupKey(infoHash, downloadUrl)
                IN  /\ pc' = pc
                    /\ idx' = idx + 1
                    /\ IF Discarded(infoHash, downloadUrl)
                          \/ key \in seenTorrents
                       THEN UNCHANGED <<seenTorrents, torrents>>
                       ELSE /\ seenTorrents' = SeenAfter(seenTorrents, key)
                            /\ torrents' = Append(torrents,
                                   Record(result, infoHash, downloadUrl))
    /\ UNCHANGED <<results, idVars, presetVars, callVars, dbVars>>

\* return torrents
Return ==
    /\ pc = "loop"
    /\ idx > Len(results)
    /\ pc' = "done"
    /\ UNCHANGED <<results, idx, seenTorrents, torrents>>
    /\ UNCHANGED <<idVars, presetVars, callVars, dbVars>>

\* no search is running
SearchOff ==
    /\ pc = "off"
    /\ results = <<>>
    /\ idx = 1
    /\ seenTorrents = {}
    /\ torrents = <<>>

----------------------------------------------------------------------------
(* IdParser: the scheme definitions *)

Str_tt == <<"t","t">>
Str_imdb == <<"i","m","d","b">>
Str_mal == <<"m","a","l">>
Str_tvdb == <<"t","v","d","b">>
Str_tmdb == <<"t","m","d","b">>
Str_kitsu == <<"k","i","t","s","u">>
Str_anilist == <<"a","n","i","l","i","s","t">>
Str_anidb == <<"a","n","i","d","b">>
Str_anidb_id == <<"a","n","i","d","b","_","i","d">>
Str_anidbid == <<"a","n","i","d","b","i","d">>
Str_animeplanet == <<"a","n","i","m","e","p","l","a","n","e","t">>
Str_ap == <<"a","p">>
Str_acd == <<"a","c","d">>
Str_anisearch == <<"a","n","i","s","e","a","r","c","h">>
Str_notifymoe == <<"n","o","t","i","f","y","m","o","e">>
Str_nm == <<"n","m">>
Str_simkl == <<"s","i","m","k","l">>
Str_undefined == <<"u","n","d","e","f","i","n","e","d">>

\* [a-zA-Z0-9]
AlnumChars ==
    Digits \cup {LowerChars[i] : i \in 1..Len(LowerChars)}
           \cup {UpperChars[i] : i \in 1..Len(UpperChars)}

\* One entry per element of ID_PARSERS, in declaration order.  The regex of
\* an entry is ^(?:prefixes)[:-]?(?<id>idClass+)(tail)?$ where tail is
\*   "se"   (?::(?<season>\d+):(?<episode>\d+))
\*   "e"    (?::(?<episode>\d+))
\*   "none" no optional group.
\* format is the entry's format function and generator the template of its
\* generator function: the literal put before the value, and whether the
\* season is interpolated (the episode always is).
ID_PARSERS ==
    <<[type |-> "imdbId", externalType |-> "imdb_id",
       prefixes |-> <<Str_tt, Str_imdb>>, idClass |-> Digits, tail |-> "se",
       format |-> "tt", genPrefix |-> <<>>, genSeason |-> TRUE],
      [type |-> "malId", externalType |-> "mal_id",
       prefixes |-> <<Str_mal>>, idClass |-> Digits, tail |-> "e",
       format |-> "Number", genPrefix |-> Str_mal \o <<":">>,
       genSeason |-> FALSE],
      [type |-> "thetvdbId", externalType |-> "thetvdb_id",
       prefixes |-> <<Str_tvdb>>, idClass |-> Digits, tail |-> "se",
       format |-> "Number", genPrefix |-> Str_tvdb \o <<":">>,
       genSeason |-> TRUE],
      [type |-> "themoviedbId", externalType |-> "themoviedb_id",
       prefixes |-> <<Str_tmdb>>, idClass |-> Digits, tail |-> "se",
       format |-> "Number", genPrefix |-> Str_tmdb \o <<":">>,
       genSeason |-> TRUE],
      [type |-> "kitsuId", externalType |-> "kitsu_id",
       prefixes |-> <<Str_kitsu>>, idClass |-> Digits, tail |-> "e",
       format |-> "Number", genPrefix |-> Str_kitsu \o <<":">>,
       genSeason |-> FALSE],
      [type |-> "anilistId", externalType |-> "anilist_id",
       prefixes |-> <<Str_anilist>>, idClass |-> Digits, tail |-> "e",
       format |-> "Number", genPrefix |-> Str_anilist \o <<":">>,
       genSeason |-> FALSE],
      [type |-> "anidbId", externalType |-> "anidb_id",
       prefixes |-> <<Str_anidb, Str_anidb_id, Str_anidbid>>,
       idClass |-> Digits, tail |-> "e",
       format |-> "Number", genPrefix |-> Str_anidb \o <<":">>,
       genSeason |-> FALSE],
      [type |-> "animePlanetId", externalType |-> "anime-planet_id",
       prefixes |-> <<Str_animeplanet, Str_ap>>,
       idClass |-> Digits, tail |-> "none",
       format |-> "Number", genPrefix |-> Str_animeplanet \o <<":">>,
       genSeason |-> FALSE],
      [type |-> "animecountdownId", externalType |-> "animecountdown_id",
       prefixes |-> <<Str_acd>>, idClass |-> Digits, tail |-> "none",
       format |-> "Number", genPrefix |-> Str_acd \o <<":">>,
       genSeason |-> FALSE],
      [type |-> "anisearchId", externalType |-> "anisearch_id",
       prefixes |-> <<Str_anisearch>>, idClass |-> Digits, tail |-> "none",
       format |-> "Number", genPrefix |-> Str_anisearch \o <<":">>,
       genSeason |-> FALSE],
      [type |-> "notifyMoeId", externalType |-> "notify.moe_id",
       prefixes |-> <<Str_notifymoe, Str_nm>>,
       idClass |-> AlnumChars, tail |-> "none",
       format |-> "identity", genPrefix |-> Str_notifymoe \o <<":">>,
       genSeason |-> FALSE],
      [type |-> "simklId", externalType |-> "simkl_id",
       prefixes |-> <<Str_simkl>>, idClass |-> Digits, tail |-> "none",
       format |-> "Number", genPrefix |-> Str_simkl \o <<":">>,
       genSeason |-> FALSE]>>

----------------------------------------------------------------------------
(* IdParser: matching, formatting, generating *)

NoMatch == [matched |-> FALSE]

\* the position after the longest run of characters of class from position
\* start of s (start itself when there is none): a greedy class+
RunEnd(s, start, class) ==
    LET stops == {e \in start..(Len(s) + 1) :
                     e = Len(s) + 1 \/ s[e] \notin class}
    IN  Min(stops)

\* the optional group of a regex against the rest of the string, from
\* position p to the end ($): the groups it captures, or NoMatch
MatchTail(tail, s, p) ==
    IF p = Len(s) + 1 THEN [matched |-> TRUE]
    ELSE IF tail = "none" \/ s[p] # ":" THEN NoMatch
    ELSE LET e1 == RunEnd(s, p + 1, Digits)
         IN  IF e1 = p + 1 THEN NoMatch
             ELSE IF tail = "e"
                  THEN IF e1 = Len(s) + 1
                       THEN [matched |-> TRUE,
                             episode |-> SubSeq(s, p + 1, e1 - 1)]
                       ELSE NoMatch
             ELSE IF e1 > Len(s) \/ s[e1] # ":" THEN NoMatch
             ELSE LET e2 == RunEnd(s, e1 + 1, Digits)
                  IN  IF e2 = e1 + 1 \/ e2 # Len(s) + 1 THEN NoMatch
                      ELSE [matched |-> TRUE,
                            season  |-> SubSeq(s, p + 1, e1 - 1),
                            episode |-> SubSeq(s, e1 + 1, e2 - 1)]

\* a pattern that does not test its prefix: any Len(pf) characters pass
MatchWithPrefix_NoPrefixTest(parser, s, pf) ==
    IF Len(s) < Len(pf) THEN NoMatch
    ELSE LET p0 == Len(pf) + 1
             p1 == IF p0 <= Len(s) /\ s[p0] \in {":", "-"}
                   THEN p0 + 1 ELSE p0
             p2 == RunEnd(s, p1, parser.idClass)
         IN  IF p2 = p1 THEN NoMatch
             ELSE LET t == MatchTail(parser.tail, s, p2)
                  IN  IF ~t.matched THEN NoMatch
                      ELSE t @@ [id |-> SubSeq(s, p1, p2 - 1)]

\* the regex of parser with its prefix alternative pf: [:-]? and the id
\* class are greedy, and giving a character back never helps because the
\* next token cannot start with it
MatchWithPrefix(parser, s, pf) ==
    IF ~HasAt(s, 1, pf) THEN NoMatch
    ELSE LET p0 == Len(pf) + 1
             p1 == IF p0 <= Len(s) /\ s[p0] \in {":", "-"}
                   THEN p0 + 1 ELSE p0
             p2 == RunEnd(s, p1, parser.idClass)
         IN  IF p2 = p1 THEN NoMatch
             ELSE LET t == MatchTail(parser.tail, s, p2)
                  IN  IF ~t.matched THEN NoMatch
                      ELSE t @@ [id |-> SubSeq(s, p1, p2 - 1)]

\* stremioId.match(parser.regex)?.groups: the first prefix alternative, in
\* the order written, with which the whole pattern matches
Match(parser, s) ==
    LET ok == {k \in 1..Len(parser.prefixes) :
                  MatchWithPrefix(parser, s, parser.prefixes[k]).matched}
    IN  IF ok = {} THEN NoMatch
        ELSE MatchWithPrefix(parser, s, parser.prefixes[Min(ok)])

DigitChars == <<"0","1","2","3","4","5","6","7","8","9">>

DigitValue(c) == (CHOOSE i \in 1..10 : DigitChars[i] = c) - 1

\* Number(id) for a string of decimal digits
RECURSIVE ToNumber(_)
ToNumber(s) ==
    IF s = <<>> THEN 0
    ELSE 10 * ToNumber(SubSeq(s, 1, Len(s) - 1)) + DigitValue(s[Len(s)])

\* String(n) for a non-negative integer
RECURSIVE NumberToString(_)
NumberToString(n) ==
    IF n < 10 THEN <<DigitChars[n + 1]>>
    ELSE NumberToString(n \div 10) \o <<DigitChars[(n % 10) + 1]>>

\* parser.format(id)
Format(parser, id) ==
    CASE parser.format = "tt"       -> JsStr(Str_tt \o id)
      [] parser.format = "Number"   -> JsNum(ToNumber(id))
      [] parser.format = "identity" -> JsStr(id)

\* `${value}` for a string | number
InterpolateValue(value) ==
    IF value.t = "number" THEN NumberToString(value.v) ELSE value.v

\* `${x}` for a string | undefined
Interpolate(x) == IF x = Undefined THEN Str_undefined ELSE x

\* parser.generator(value, season, episode)
Generator(parser, value, season, episode) ==
    parser.genPrefix \o InterpolateValue(value)
        \o (IF parser.genSeason THEN <<":">> \o Interpolate(season) ELSE <<>>)
        \o <<":">> \o Interpolate(episode)

ParserOfType(type) ==
    ID_PARSERS[CHOOSE k \in 1..Len(ID_PARSERS) : ID_PARSERS[k].type = type]

Null == [type |-> "null"]

\* a parse that stores the captured id without the formatter
Parse_NoFormat(id, media) ==
    LET ok == {k \in 1..Len(ID_PARSERS) : Match(ID_PARSERS[k], id).matched}
    IN  IF ok = {} THEN Null
        ELSE LET parser == ID_PARSERS[Min(ok)]
                 groups == Match(parser, id)
             IN  [type         |-> parser.type,
                  value        |-> JsStr(groups.id),
                  fullId       |-> id,
                  externalType |-> parser.externalType,
                  mediaType    |-> media]
                 @@ (IF "season" \in DOMAIN groups
                     THEN [season |-> groups.season] ELSE Empty)
                 @@ (IF "episode" \in DOMAIN groups
                     THEN [episode |-> groups.episode] ELSE Empty)

\* IdParser.parse
Parse(id, media) ==
    LET ok == {k \in 1..Len(ID_PARSERS) : Match(ID_PARSERS[k], id).matched}
    IN  IF ok = {} THEN Null
        ELSE LET parser == ID_PARSERS[Min(ok)]
                 groups == Match(parser, id)
             IN  [type         |-> parser.type,
                  value        |-> Format(parser, groups.id),
                  fullId       |-> id,
                  externalType |-> parser.externalType,
                  mediaType    |-> media]
                 @@ (IF "season" \in DOMAIN groups
                     THEN [season |-> groups.season] ELSE Empty)
                 @@ (IF "episode" \in DOMAIN groups
                     THEN [episode |-> groups.episode] ELSE Empty)

----------------------------------------------------------------------------
(* The identifiers given to IdParser.parse, and one round trip *)

MaxIdLen == 2

IdDigits == {"0", "7"}

\* the id part: digit strings of up to MaxIdLen characters, and one that
\* is alphanumeric
IdTexts ==
    UNION {[1..n -> IdDigits] : n \in 1..MaxIdLen} \cup {<<"a","7">>}

IdPrefixes ==
    {Str_tt, Str_imdb, Str_mal, Str_tvdb, Str_tmdb, Str_kitsu, Str_anilist,
     Str_anidb, Str_anidb_id, Str_anidbid, Str_animeplanet, Str_ap, Str_acd,
     Str_anisearch, Str_notifymoe, Str_nm, Str_simkl, <<"x","x">>,
     Str_nm \o Str_tt}

IdSeparators == {<<>>, <<":">>, <<"-">>}

IdTails == {<<>>, <<":","3">>, <<":","1",":","2">>, <<":","x">>}

StremioIds ==
    {pf \o sep \o id \o tail :
        pf \in IdPrefixes, sep \in IdSeparators, id \in IdTexts,
        tail \in IdTails}

MediaTypes == {"movie", "series"}

IdOff ==
    /\ idPc = "off"
    /\ stremioId = <<>>
    /\ mediaType = "movie"
    /\ parsedId = Null
    /\ generated = <<>>
    /\ reparsedId = Null

IdInit ==
    /\ idPc = "input"
    /\ stremioId \in StremioIds
    /\ mediaType \in MediaTypes
    /\ parsedId = Null
    /\ generated = <<>>
    /\ reparsedId = Null

\* const p = IdParser.parse(stremioId, mediaType)
ParseId ==
    /\ idPc = "input"
    /\ parsedId' = Parse(stremioId, mediaType)
    /\ idPc' = "parsed"
    /\ UNCHANGED <<stremioId, mediaType, generated, reparsedId>>
    /\ UNCHANGED <<searchVars, presetVars, callVars, dbVars>>

\* p.generator(p.value, p.season, p.episode)
GenerateId ==
    /\ idPc = "parsed"
    /\ parsedId # Null
    /\ generated' = Generator(ParserOfType(parsedId.type), parsedId.value,
                              Get(parsedId, "season"), Get(parsedId, "episode"))
    /\ idPc' = "generated"
    /\ UNCHANGED <<stremioId, mediaType, parsedId, reparsedId>>
    /\ UNCHANGED <<searchVars, presetVars, callVars, dbVars>>

\* IdParser.parse(the generated string, mediaType)
ReparseId ==
    /\ idPc = "generated"
    /\ reparsedId' = Parse(generated, mediaType)
    /\ idPc' = "reparsed"
    /\ UNCHANGED <<stremioId, mediaType, parsedId, generated>>
    /\ UNCHANGED <<searchVars, presetVars, callVars, dbVars>>

----------------------------------------------------------------------------
(* new URL(input).pathname, as far as the presets use it *)

SchemeChars == AlnumChars \cup {"+", "-", "."}

LetterChars == AlnumChars \ Digits

SpecialSchemes ==
    {<<"h","t","t","p">>, <<"h","t","t","p","s">>, <<"w","s">>,
     <<"w","s","s">>, <<"f","t","p">>}

\* the position of the ":" that ends the scheme, 0 when s starts with none
SchemeEnd(s) ==
    LET ends == {c \in 2..Len(s) :
                    /\ s[c] = ":"
                    /\ s[1] \in LetterChars
                    /\ \A k \in 2..(c - 1) : s[k] \in SchemeChars}
    IN  IF ends = {} THEN 0 ELSE Min(ends)

\* the first position from p on that holds a character of stops (the
\* position after the end of s when there is none)
FirstOf(s, p, stops) ==
    Min({e \in p..(Len(s) + 1) : e = Len(s) + 1 \/ s[e] \in stops})

InvalidUrl == [valid |-> FALSE]

\* new URL(s) without a base, for inputs with no credentials, port, dot
\* segments, backslashes or characters to percent-encode: invalid (a
\* TypeError) or the pathname
ParseUrl(s) ==
    LET c == SchemeEnd(s)
    IN  IF c = 0 THEN InvalidUrl
        ELSE IF ToLowerCase(SubSeq(s, 1, c - 1)) \in SpecialSchemes
        THEN LET a == Min({e \in (c + 1)..(Len(s) + 1) :
                              e = Len(s) + 1 \/ s[e] # "/"})
                 h == FirstOf(s, a, {"/", "?", "#"})
                 q == FirstOf(s, h, {"?", "#"})
             IN  IF h = a THEN InvalidUrl
                 ELSE [valid    |-> TRUE,
                       pathname |-> IF q = h THEN <<"/">>
                                    ELSE SubSeq(s, h, q - 1)]
        ELSE IF HasAt(s, c + 1, <<"/","/">>)
        THEN LET h == FirstOf(s, c + 3, {"/", "?", "#"})
                 q == FirstOf(s, h, {"?", "#"})
             IN  [valid |-> TRUE, pathname |-> SubSeq(s, h, q - 1)]
        ELSE LET q == FirstOf(s, c + 1, {"?", "#"})
             IN  [valid |-> TRUE, pathname |-> SubSeq(s, c + 1, q - 1)]

\* String.prototype.endsWith
EndsWith(s, pat) == HasAt(s, Len(s) - Len(pat) + 1, pat)

ManifestSuffix ==
    <<"/","m","a","n","i","f","e","s","t",".","j","s","o","n">>

Url_Manifest ==
    <<"h","t","t","p","s",":","/","/","h","/","a","/","m","a","n","i","f",
      "e","s","t",".","j","s","o","n">>

Url_NoSuffix ==
    <<"h","t","t","p","s",":","/","/","h","/","a">>

Url_ManifestQuery ==
    <<"h","t","t","p","s",":","/","/","h","/","m","a","n","i","f","e","s",
      "t",".","j","s","o","n","?","x","=","1">>

Url_SuffixInQuery ==
    <<"h","t","t","p","s",":","/","/","h","/","a","?","/","m","a","n","i",
      "f","e","s","t",".","j","s","o","n">>

Url_NoScheme ==
    <<"h","/","m","a","n","i","f","e","s","t",".","j","s","o","n">>

Url_NoHost ==
    <<"h","t","t","p","s",":","/","/">>

Url_LongerName ==
    <<"h","t","t","p","s",":","/","/","h","/","a","/","m","a","n","i","f",
      "e","s","t",".","j","s","o","n","x">>

Url_OtherScheme ==
    <<"s","t","r","e","m","i","o",":","/","/","h","/","m","a","n","i","f",
      "e","s","t",".","j","s","o","n">>

Url_OtherFile ==
    <<"h","t","t","p","s",":","/","/","h","/","x","m","a","n","i","f","e",
      "s","t",".","j","s","o","n">>

Url_UpperFragment ==
    <<"H","T","T","P","S",":","/","/","h","/","m","a","n","i","f","e","s",
      "t",".","j","s","o","n","#","f">>

----------------------------------------------------------------------------
(* CustomPreset.generateAddons / generateAddon *)

DEFAULT_TIMEOUT == 15000

Returns(value) == [kind |-> "returns", value |-> value]

Throws(error) == [kind |-> "throws", error |-> error]

\* new Error(`${options.name} has an invalid Manifest URL. It must be a
\* valid link to a manifest.json`)
InvalidManifestUrlError(opts) ==
    [class   |-> "Error",
     message |-> <<Interpolate(Get(opts, "name")), " has an invalid ",
                   "Manifest URL",
                   ". It must be a valid link to a manifest.json">>]

\* what new URL(...) throws
UrlTypeError == [class |-> "TypeError", message |-> <<"Invalid URL">>]

\* truthiness of a tagged value
TruthyJs(x) ==
    \/ (x.t = "number" /\ x.v # 0)
    \/ (x.t = "string" /\ x.v # <<>>)

\* options.timeout || this.METADATA.TIMEOUT
AddonTimeout(opts) ==
    IF TruthyJs(GetJs(opts, "timeout"))
    THEN GetJs(opts, "timeout") ELSE JsNum(DEFAULT_TIMEOUT)

\* CustomPreset.generateAddon (the boolean flags, resources, mediaTypes and
\* headers are copied from the options and no property below reads them)
generateAddon(opts) ==
    [name        |-> IF Truthy(Get(opts, "name")) THEN opts.name
                     ELSE <<"C","u","s","t","o","m">>,
     manifestUrl |-> Get(opts, "manifestUrl"),
     enabled     |-> TRUE,
     timeout     |-> AddonTimeout(opts),
     preset      |-> [id |-> "", type |-> "custom", options |-> opts]]

\* generateAddons without the try/catch around new URL
generateAddons_NoCatch(opts) ==
    LET url == ParseUrl(Interpolate(Get(opts, "manifestUrl")))
    IN  IF ~url.valid THEN Throws(UrlTypeError)
        ELSE IF ~EndsWith(url.pathname, ManifestSuffix)
        THEN Throws(InvalidManifestUrlError(opts))
        ELSE Returns(<<generateAddon(opts)>>)

\* CustomPreset.generateAddons
generateAddons(opts) ==
    LET url == ParseUrl(Interpolate(Get(opts, "manifestUrl")))
    IN  IF ~url.valid THEN Throws(InvalidManifestUrlError(opts))
        ELSE IF ~EndsWith(url.pathname, ManifestSuffix)
        THEN Throws(InvalidManifestUrlError(opts))
        ELSE Returns(<<generateAddon(opts)>>)

----------------------------------------------------------------------------
(* JackettPreset.generateManifestUrl *)

TorznabResultsPath ==
    <<"/","a","p","i","/","v","2",".","0","/","i","n","d","e","x","e","r",
      "s","/","a","l","l","/","r","e","s","u","l","t","s","/","t","o","r",
      "z","n","a","b">>

\* jackettUrl.replace(/\/$/, '')
StripTrailingSlash(s) ==
    IF Len(s) > 0 /\ s[Len(s)] = "/" THEN SubSeq(s, 1, Len(s) - 1) ELSE s

\* this.base64EncodeJSON (TorznabPreset): an encoding from which the
\* configuration can be read back
base64EncodeJSON(config) == [base64json |-> config]

\* credentials that fall back option by option
JackettCredentials_PerOption(e, opts) ==
    [url |-> IF Truthy(Get(opts, "jackettUrl")) THEN opts.jackettUrl
             ELSE Get(e, "BUILTIN_JACKETT_URL"),
     key |-> IF Truthy(Get(opts, "jackettApiKey")) THEN opts.jackettApiKey
             ELSE Get(e, "BUILTIN_JACKETT_API_KEY")]

\* the URL and the API key the address is built from
JackettCredentials(e, opts) ==
    IF Truthy(Get(opts, "jackettUrl")) \/ Truthy(Get(opts, "jackettApiKey"))
    THEN [url |-> Get(opts, "jackettUrl"), key |-> Get(opts, "jackettApiKey")]
    ELSE [url |-> Get(e, "BUILTIN_JACKETT_URL"),
          key |-> Get(e, "BUILTIN_JACKETT_API_KEY")]

\* JackettPreset.generateManifestUrl (the base configuration of the user
\* data and services is spread into config and no property below reads it)
generateManifestUrl(e, opts) ==
    LET cred == JackettCredentials(e, opts)
    IN  IF ~Truthy(cred.url) \/ ~Truthy(cred.key)
        THEN Throws([class   |-> "Error",
                     message |-> "Jackett URL and API Key are required"])
        ELSE Returns(
               [template |-> "${Env.INTERNAL_URL}/builtins/torznab/${configString}/manifest.json",
                configString |-> base64EncodeJSON(
                    [url     |-> StripTrailingSlash(cred.url)
                                     \o TorznabResultsPath,
                     apiPath |-> "/api",
                     apiKey  |-> cred.key,
                     forceQuerySearch |-> TRUE])])

----------------------------------------------------------------------------
(* The options and environments a preset is called with, and one call *)

ManifestUrls ==
    {Url_Manifest, Url_NoSuffix, Url_ManifestQuery, Url_SuffixInQuery,
     Url_NoScheme, Url_NoHost, Url_LongerName, Url_OtherScheme,
     Url_OtherFile, Url_UpperFragment, <<>>}

CustomOptions ==
    {n @@ u @@ t :
        n \in {Empty, "name" :> <<"N">>},
        u \in {Empty} \cup {"manifestUrl" :> x : x \in ManifestUrls},
        t \in {Empty, "timeout" :> JsNum(0), "timeout" :> JsNum(5000)}}

UserUrl == <<"h","t","t","p",":","/","/","u">>

UserKey == <<"u","k">>

EnvUrl == <<"h","t","t","p",":","/","/","e">>

EnvKey == <<"e","k">>

JackettOptions ==
    {u @@ k :
        u \in {Empty, "jackettUrl" :> <<>>, "jackettUrl" :> UserUrl,
               "jackettUrl" :> (UserUrl \o <<"/">>)},
        k \in {Empty, "jackettApiKey" :> <<>>, "jackettApiKey" :> UserKey}}

Envs ==
    {u @@ k :
        u \in {Empty, "BUILTIN_JACKETT_URL" :> EnvUrl},
        k \in {Empty, "BUILTIN_JACKETT_API_KEY" :> EnvKey}}

NoOutcome == [kind |-> "none"]

PresetOff ==
    /\ presetPc = "off"
    /\ preset = "custom"
    /\ env = Empty
    /\ options = Empty
    /\ outcome = NoOutcome

PresetInit ==
    /\ presetPc = "input"
    /\ preset \in {"custom", "jackett"}
    /\ env \in Envs
    /\ options \in (IF preset = "custom" THEN CustomOptions
                    ELSE JackettOptions)
    /\ outcome = NoOutcome

\* CustomPreset.generateAddons(userData, options)
CallGenerateAddons ==
    /\ presetPc = "input"
    /\ preset = "custom"
    /\ outcome' = generateAddons(options)
    /\ presetPc' = "done"
    /\ UNCHANGED <<preset, env, options>>
    /\ UNCHANGED <<searchVars, idVars, callVars, dbVars>>

\* JackettPreset.generateManifestUrl(userData, services, options)
CallGenerateManifestUrl ==
    /\ presetPc = "input"
    /\ preset = "jackett"
    /\ outcome' = generateManifestUrl(env, options)
    /\ presetPc' = "done"
    /\ UNCHANGED <<preset, env, options>>
    /\ UNCHANGED <<searchVars, idVars, callVars, dbVars>>

----------------------------------------------------------------------------
(* TorznabAddon._searchTorrents: two invocations on one addon instance *)

Invocations == {"a", "b"}

\* what performSearch may return to either invocation: two results with
\* the same hash through different fields, and one with a URL only
CallRawResults ==
    {("infohash" :> HashAUpper)
         @@ ("enclosure" :> <<[type |-> TorrentType, url |-> UrlT1]>>)
         @@ ("seeders" :> JsNum(42)),
     ("magneturl" :> (MagnetPrefix \o HashA \o TrackerParams))
         @@ ("enclosure" :> <<>>) @@ ("seeders" :> JsNum(42)),
     ("enclosure" :> <<[type |-> TorrentType, url |-> UrlT1]>>)
         @@ ("seeders" :> JsNum(42))}

CallResultLists ==
    UNION {[1..n -> CallRawResults] : n \in 0..MaxResults}

\* a seen set that is one field of the addon instance
SeenBy_Shared(seen, i) == UNION {seen[j] : j \in Invocations}

\* the seenTorrents that invocation i reads: the constant local to its call
SeenBy(seen, i) == seen[i]

CallsOff ==
    /\ callPc = [i \in Invocations |-> "off"]
    /\ callResults = [i \in Invocations |-> <<>>]
    /\ callIdx = [i \in Invocations |-> 1]
    /\ callSeen = [i \in Invocations |-> {}]
    /\ callTorrents = [i \in Invocations |-> <<>>]

\* both invocations have been called and await performSearch
CallsInit ==
    /\ callPc = [i \in Invocations |-> "start"]
    /\ callResults = [i \in Invocations |-> <<>>]
    /\ callIdx = [i \in Invocations |-> 1]
    /\ callSeen = [i \in Invocations |-> {}]
    /\ callTorrents = [i \in Invocations |-> <<>>]

\* performSearch resolves for invocation i, which makes its own Set and array
CallPerformSearch(i) ==
    /\ callPc[i] = "start"
    /\ \E list \in CallResultLists :
           callResults' = [callResults EXCEPT ![i] = list]
    /\ callPc' = [callPc EXCEPT ![i] = "loop"]
    /\ callSeen' = [callSeen EXCEPT ![i] = {}]
    /\ callTorrents' = [callTorrents EXCEPT ![i] = <<>>]
    /\ UNCHANGED callIdx
    /\ UNCHANGED <<searchVars, idVars, presetVars, dbVars>>

\* one iteration of the loop of invocation i
CallLoopStep(i) ==
    /\ callPc[i] = "loop"
    /\ callIdx[i] <= Len(callResults[i])
    /\ LET result == callResults[i][callIdx[i]]
       IN  IF IterationThrows(result)
           THEN /\ callPc' = [callPc EXCEPT ![i] = "threw"]
                /\ UNCHANGED <<callIdx, callSeen, callTorrents>>
           ELSE LET infoHash == extractInfoHash(result)
                    downloadUrl == DownloadUrl(result)
                    key == DedupKey(infoHash, downloadUrl)
                IN  /\ callPc' = callPc
                    /\ callIdx' = [callIdx EXCEPT ![i] = @ + 1]
                    /\ IF Discarded(infoHash, downloadUrl)
                          \/ key \in SeenBy(callSeen, i)
                       THEN UNCHANGED <<callSeen, callTorrents>>
                       ELSE /\ callSeen' = [callSeen EXCEPT
                                   ![i] = SeenAfter(@, key)]
                            /\ callTorrents' = [callTorrents EXCEPT
                                   ![i] = Append(@,
                                       Record(result, infoHash, downloadUrl))]
    /\ UNCHANGED callResults
    /\ UNCHANGED <<searchVars, idVars, presetVars, dbVars>>

\* invocation i returns its torrents
CallReturn(i) ==
    /\ callPc[i] = "loop"
    /\ callIdx[i] > Len(callResults[i])
    /\ callPc' = [callPc EXCEPT ![i] = "done"]
    /\ UNCHANGED <<callResults, callIdx, callSeen, callTorrents>>
    /\ UNCHANGED <<searchVars, idVars, presetVars, dbVars>>

----------------------------------------------------------------------------
(* DB.begin(): the Postgres transaction *)

\* how many calls are made on one transaction object
MaxTxCalls == 3

TxCallKinds == {"commit", "rollback", "execute"}

\* the statement that a call of a kind sends
StatementOf(kind) ==
    CASE kind = "commit"   -> "COMMIT"
      [] kind = "rollback" -> "ROLLBACK"
      [] kind = "execute"  -> "QUERY"

PgOff ==
    /\ pgPc = "off"
    /\ finalised = FALSE
    /\ pgCalls = <<>>
    /\ pgLog = <<>>

\* begin() has connected a client, sent BEGIN and returned the transaction
PgInit ==
    /\ pgPc = "open"
    /\ finalised = FALSE
    /\ pgCalls = <<>>
    /\ pgLog = <<"BEGIN">>

\* commit() / rollback() / execute() is called: client.query(...) is sent
\* before the first await
PgCall(kind) ==
    /\ pgPc = "open"
    /\ Len(pgCalls) < MaxTxCalls
    /\ pgCalls' = Append(pgCalls, [kind |-> kind, state |-> "querying"])
    /\ pgLog' = Append(pgLog, StatementOf(kind))
    /\ UNCHANGED <<pgPc, finalised>>
    /\ UNCHANGED <<searchVars, idVars, presetVars, callVars>>
    /\ UNCHANGED <<sqliteVars, initVars, routeVars>>

PgCommit == PgCall("commit")

PgRollback == PgCall("rollback")

PgExecute == PgCall("execute")

\* the query of call c settles (the client answers its queries in order);
\* commit and rollback then run finalise() in their finally block
PgQuerySettles(c, newState) ==
    /\ pgPc = "open"
    /\ c \in 1..Len(pgCalls)
    /\ pgCalls[c].state = "querying"
    /\ \A b \in 1..(c - 1) : pgCalls[b].state # "querying"
    /\ pgCalls' = [pgCalls EXCEPT ![c].state = newState]
    /\ IF pgCalls[c].kind \in {"commit", "rollback"} /\ ~finalised
       THEN /\ finalised' = TRUE
            /\ pgLog' = Append(pgLog, "release")
       ELSE UNCHANGED <<finalised, pgLog>>
    /\ UNCHANGED pgPc
    /\ UNCHANGED <<searchVars, idVars, presetVars, callVars>>
    /\ UNCHANGED <<sqliteVars, initVars, routeVars>>

PgQueryResolves == \E c \in 1..Len(pgCalls) : PgQuerySettles(c, "returned")

PgQueryRejects == \E c \in 1..Len(pgCalls) : PgQuerySettles(c, "threw")

----------------------------------------------------------------------------
(* DB.begin(): the SQLite transaction *)

SqliteOff ==
    /\ sqlitePc = "off"
    /\ isFinalised = FALSE
    /\ sqliteCalls = <<>>
    /\ sqliteLog = <<>>

\* begin() has run BEGIN and returned the transaction
SqliteInit ==
    /\ sqlitePc = "open"
    /\ isFinalised = FALSE
    /\ sqliteCalls = <<>>
    /\ sqliteLog = <<"BEGIN">>

\* commit() or rollback() is called: a no-op when isFinalised, else the
\* statement is given to the database before the first await
SqliteEnd(kind) ==
    /\ sqlitePc = "open"
    /\ Len(sqliteCalls) < MaxTxCalls
    /\ IF isFinalised
       THEN /\ sqliteCalls' = Append(sqliteCalls,
                                     [kind |-> kind, state |-> "returned",
                                      sql |-> FALSE])
            /\ UNCHANGED sqliteLog
       ELSE /\ sqliteCalls' = Append(sqliteCalls,
                                     [kind |-> kind, state |-> "awaiting",
                                      sql |-> TRUE])
            /\ sqliteLog' = Append(sqliteLog, StatementOf(kind))
    /\ UNCHANGED <<sqlitePc, isFinalised>>
    /\ UNCHANGED <<searchVars, idVars, presetVars, callVars>>
    /\ UNCHANGED <<pgVars, initVars, routeVars>>

SqliteCommit == SqliteEnd("commit")

SqliteRollback == SqliteEnd("rollback")

\* execute() is called: throws when isFinalised, else runs the query
SqliteExecute ==
    /\ sqlitePc = "open"
    /\ Len(sqliteCalls) < MaxTxCalls
    /\ IF isFinalised
       THEN /\ sqliteCalls' = Append(sqliteCalls,
                                     [kind |-> "execute", state |-> "refused",
                                      sql |-> FALSE])
            /\ UNCHANGED sqliteLog
       ELSE /\ sqliteCalls' = Append(sqliteCalls,
                                     [kind |-> "execute", state |-> "awaiting",
                                      sql |-> TRUE])
            /\ sqliteLog' = Append(sqliteLog, StatementOf("execute"))
    /\ UNCHANGED <<sqlitePc, isFinalised>>
    /\ UNCHANGED <<searchVars, idVars, presetVars, callVars>>
    /\ UNCHANGED <<pgVars, initVars, routeVars>>

\* the statement of call c succeeds: commit and rollback set isFinalised
SqliteStatementResolves ==
    /\ sqlitePc = "open"
    /\ \E c \in 1..Len(sqliteCalls) :
           /\ sqliteCalls[c].state = "awaiting"
           /\ sqliteCalls' = [sqliteCalls EXCEPT ![c].state = "returned"]
           /\ isFinalised' =
                  (isFinalised \/ sqliteCalls[c].kind \in {"commit", "rollback"})
    /\ UNCHANGED <<sqlitePc, sqliteLog>>
    /\ UNCHANGED <<searchVars, idVars, presetVars, callVars>>
    /\ UNCHANGED <<pgVars, initVars, routeVars>>

\* the statement of call c throws: the call throws, isFinalised is not set
SqliteStatementRejects ==
    /\ sqlitePc = "open"
    /\ \E c \in 1..Len(sqliteCalls) :
           /\ sqliteCalls[c].state = "awaiting"
           /\ sqliteCalls' = [sqliteCalls EXCEPT ![c].state = "threw"]
    /\ UNCHANGED <<sqlitePc, isFinalised, sqliteLog>>
    /\ UNCHANGED <<searchVars, idVars, presetVars, callVars>>
    /\ UNCHANGED <<pgVars, initVars, routeVars>>

----------------------------------------------------------------------------
(* DB.initialise and DB.open *)

Unset == "unset"

InitOff ==
    /\ initPc = "off"
    /\ initialised = FALSE
    /\ dialect = Unset
    /\ uri = Unset
    /\ db = Unset
    /\ opened = <<>>
    /\ tablesCreated = 0
    /\ initCalls = <<>>

\* how many initialise calls are made on the singleton
MaxInitCalls == 2

\* the uri arguments: a scheme and the rest
InitUris ==
    {[scheme |-> "postgres", rest |-> "h/d"],
     [scheme |-> "sqlite", rest |-> "f.db"],
     [scheme |-> "mysql", rest |-> "h/d"]}

\* db/utils.parseConnectionURI throws for a scheme that is no dialect
parseConnectionURIThrows(u) == u.scheme \notin {"postgres", "sqlite"}

\* db/utils.parseConnectionURI
parseConnectionURI(u) ==
    IF u.scheme = "postgres"
    THEN [dialect |-> "postgres", url |-> u.rest]
    ELSE [dialect |-> "sqlite", filename |-> u.rest]

\* the singleton exists and nothing has been initialised
InitialiseInit ==
    /\ initPc = "on"
    /\ initialised = FALSE
    /\ dialect = Unset
    /\ uri = Unset
    /\ db = Unset
    /\ opened = <<>>
    /\ tablesCreated = 0
    /\ initCalls = <<>>

\* initialise(u) is called and runs to its first await: the test of
\* DB.initialised, parseConnectionURI, and open() as far as its own first
\* await (the Postgres branch of open has none and creates the pool)
CallInitialise ==
    /\ initPc = "on"
    /\ Len(initCalls) < MaxInitCalls
    /\ \E u \in InitUris :
           IF initialised
           THEN /\ initCalls' = Append(initCalls, [arg |-> u, at |-> "returned"])
                /\ UNCHANGED <<uri, db, opened>>
           ELSE IF parseConnectionURIThrows(u)
           THEN /\ initCalls' = Append(initCalls, [arg |-> u, at |-> "threw"])
                /\ UNCHANGED <<uri, db, opened>>
           ELSE /\ uri' = parseConnectionURI(u)
                /\ IF uri'.dialect = "postgres"
                   THEN /\ opened' = Append(opened, "pool")
                        /\ db' = Len(opened) + 1
                        /\ initCalls' = Append(initCalls,
                                               [arg |-> u, at |-> "opened"])
                   ELSE /\ UNCHANGED <<opened, db>>
                        /\ initCalls' = Append(initCalls,
                                               [arg |-> u, at |-> "opening"])
    /\ UNCHANGED <<initPc, initialised, dialect, tablesCreated>>
    /\ UNCHANGED <<searchVars, idVars, presetVars, callVars>>
    /\ UNCHANGED <<pgVars, sqliteVars, routeVars>>

\* the sqlite open(...) of call c resolves: this.db and this.uri.dialect
\* are assigned
OpenResolves ==
    /\ initPc = "on"
    /\ \E c \in 1..Len(initCalls) :
           /\ initCalls[c].at = "opening"
           /\ opened' = Append(opened, "database")
           /\ db' = Len(opened) + 1
           /\ uri' = [uri EXCEPT !.dialect = "sqlite"]
           /\ initCalls' = [initCalls EXCEPT ![c].at = "opened"]
    /\ UNCHANGED <<initPc, initialised, dialect, tablesCreated>>
    /\ UNCHANGED <<searchVars, idVars, presetVars, callVars>>
    /\ UNCHANGED <<pgVars, sqliteVars, routeVars>>

\* await this.ping() of call c resolves, or rejects and initialise rethrows
Ping ==
    /\ initPc = "on"
    /\ \E c \in 1..Len(initCalls) : \E to \in {"pinged", "threw"} :
           /\ initCalls[c].at = "opened"
           /\ initCalls' = [initCalls EXCEPT ![c].at = to]
    /\ UNCHANGED <<initPc, initialised, dialect, uri, db, opened,
                   tablesCreated>>
    /\ UNCHANGED <<searchVars, idVars, presetVars, callVars>>
    /\ UNCHANGED <<pgVars, sqliteVars, routeVars>>

\* the CREATE TABLE IF NOT EXISTS loop of call c completes
CreateTables ==
    /\ initPc = "on"
    /\ \E c \in 1..Len(initCalls) :
           /\ initCalls[c].at = "pinged"
           /\ initCalls' = [initCalls EXCEPT ![c].at = "created"]
    /\ tablesCreated' = tablesCreated + 1
    /\ UNCHANGED <<initPc, initialised, dialect, uri, db, opened>>
    /\ UNCHANGED <<searchVars, idVars, presetVars, callVars>>
    /\ UNCHANGED <<pgVars, sqliteVars, routeVars>>

\* call c (after the PRAGMAs of sqlite) sets DB.initialised and DB.dialect
FinishInitialise ==
    /\ initPc = "on"
    /\ \E c \in 1..Len(initCalls) :
           /\ initCalls[c].at = "created"
           /\ initCalls' = [initCalls EXCEPT ![c].at = "done"]
    /\ initialised' = TRUE
    /\ dialect' = uri.dialect
    /\ UNCHANGED <<initPc, uri, db, opened, tablesCreated>>
    /\ UNCHANGED <<searchVars, idVars, presetVars, callVars>>
    /\ UNCHANGED <<pgVars, sqliteVars, routeVars>>

----------------------------------------------------------------------------
(* The GDrive authorisation route *)

NoResponse == [status |-> 0]

RouteOff ==
    /\ routePc = "off"
    /\ body = Empty
    /\ exchanges = <<>>
    /\ response = NoResponse
    /\ nextErrors = <<>>

\* new APIError(code, undefined, message)
APIError(code, message) ==
    [class |-> "APIError", code |-> code, message |-> message]

\* the TypeError of destructuring req.body when there is no body
BodyTypeError ==
    [class |-> "TypeError", message |-> "Cannot destructure property 'code'"]

\* the values of req.body.code that are truthy
RouteCodes == {"c1", "c2", "c3", "c4", "c5"}

\* a request that carries no body: req.body is undefined
NoBody == [undefined |-> TRUE]

\* req.body: absent, without code, with an empty code, with a code
RouteBodies ==
    {NoBody, Empty, "code" :> ""} \cup {"code" :> c : c \in RouteCodes}

AccessTokens == {"undefined", "a1", "a2", "a3"}

RefreshTokens == {"undefined", "r1", "r2", "r3"}

\* what GoogleOAuth.exchangeAuthorisationCode may resolve to
ExchangeResults ==
    [access_token : AccessTokens, refresh_token : RefreshTokens]

\* the messages of the errors it may reject with
ExchangeErrors ==
    {"invalid_grant", "invalid_client", "redirect_uri_mismatch", "fetch failed"}

\* the catch block: next(new APIError(INTERNAL_SERVER_ERROR, undefined,
\* error.message))
Caught(error) == APIError("INTERNAL_SERVER_ERROR", error.message)

\* createResponse({success: true, data: {accessToken, refreshToken}})
TokenResponse(tokens) ==
    [status |-> 200,
     json   |-> [success |-> TRUE,
                 data |-> [accessToken  |-> tokens.access_token,
                           refreshToken |-> tokens.refresh_token]]]

RouteInit ==
    /\ routePc = "received"
    /\ body \in RouteBodies
    /\ exchanges = <<>>
    /\ response = NoResponse
    /\ nextErrors = <<>>

\* the handler runs to its first await: the destructuring, the test of
\* code with the throw that the catch block receives, or the call of
\* exchangeAuthorisationCode
HandlePost ==
    /\ routePc = "received"
    /\ IF body = NoBody
       THEN /\ nextErrors' = Append(nextErrors, Caught(BodyTypeError))
            /\ routePc' = "done"
            /\ UNCHANGED exchanges
       ELSE IF "code" \notin DOMAIN body \/ body.code = ""
       THEN /\ nextErrors' = Append(nextErrors,
                   Caught(APIError("BAD_REQUEST", "Code is required")))
            /\ routePc' = "done"
            /\ UNCHANGED exchanges
       ELSE /\ exchanges' = Append(exchanges, body.code)
            /\ routePc' = "exchanging"
            /\ UNCHANGED nextErrors
    /\ UNCHANGED <<body, response>>
    /\ UNCHANGED <<searchVars, idVars, presetVars, callVars>>
    /\ UNCHANGED <<pgVars, sqliteVars, initVars>>

\* the exchange resolves: res.status(200).json(...)
ExchangeResolves ==
    /\ routePc = "exchanging"
    /\ \E tokens \in ExchangeResults : response' = TokenResponse(tokens)
    /\ routePc' = "done"
    /\ UNCHANGED <<body, exchanges, nextErrors>>
    /\ UNCHANGED <<searchVars, idVars, presetVars, callVars>>
    /\ UNCHANGED <<pgVars, sqliteVars, initVars>>

\* the exchange rejects: the catch block
ExchangeRejects ==
    /\ routePc = "exchanging"
    /\ \E msg \in ExchangeErrors :
           nextErrors' = Append(nextErrors,
                                Caught([class |-> "Error", message |-> msg]))
    /\ routePc' = "done"
    /\ UNCHANGED <<body, exchanges, response>>
    /\ UNCHANGED <<searchVars, idVars, presetVars, callVars>>
    /\ UNCHANGED <<pgVars, sqliteVars, initVars>>

DbOff == PgOff /\ SqliteOff /\ InitOff /\ RouteOff

----------------------------------------------------------------------------
(* Specifications: one per component, the other components at rest *)

Init == SearchInit /\ IdOff /\ PresetOff /\ CallsOff /\ DbOff

Next == PerformSearch \/ LoopStep \/ Return

\* one invocation of TorznabAddon._searchTorrents
Spec == Init /\ [][Next]_vars

InitId == SearchOff /\ IdInit /\ PresetOff /\ CallsOff /\ DbOff

NextId == ParseId \/ GenerateId \/ ReparseId

\* one round trip through IdParser.parse and the generator
SpecId == InitId /\ [][NextId]_vars

InitPreset == SearchOff /\ IdOff /\ PresetInit /\ CallsOff /\ DbOff

NextPreset == CallGenerateAddons \/ CallGenerateManifestUrl

\* one call of CustomPreset.generateAddons or JackettPreset.generateManifestUrl
SpecPreset == InitPreset /\ [][NextPreset]_vars

InitCalls == SearchOff /\ IdOff /\ PresetOff /\ CallsInit /\ DbOff

NextCalls ==
    \/ \E i \in Invocations : CallPerformSearch(i)
    \/ \E i \in Invocations : CallLoopStep(i)
    \/ \E i \in Invocations : CallReturn(i)

\* two invocations of TorznabAddon._searchTorrents, interleaved
SpecCalls == InitCalls /\ [][NextCalls]_vars

InitPg ==
    /\ SearchOff /\ IdOff /\ PresetOff /\ CallsOff
    /\ PgInit /\ SqliteOff /\ InitOff /\ RouteOff

NextPg ==
    PgCommit \/ PgRollback \/ PgExecute \/ PgQueryResolves \/ PgQueryRejects

\* the calls made on one Postgres transaction
SpecPg == InitPg /\ [][NextPg]_vars

InitSqlite ==
    /\ SearchOff /\ IdOff /\ PresetOff /\ CallsOff
    /\ PgOff /\ SqliteInit /\ InitOff /\ RouteOff

NextSqlite ==
    \/ SqliteCommit
    \/ SqliteRollback
    \/ SqliteExecute
    \/ SqliteStatementResolves
    \/ SqliteStatementRejects

\* the calls made on one SQLite transaction
SpecSqlite == InitSqlite /\ [][NextSqlite]_vars

InitInitialise ==
    /\ SearchOff /\ IdOff /\ PresetOff /\ CallsOff
    /\ PgOff /\ SqliteOff /\ InitialiseInit /\ RouteOff

NextInitialise ==
    \/ CallInitialise
    \/ OpenResolves
    \/ Ping
    \/ CreateTables
    \/ FinishInitialise

\* the initialise calls made on the DB singleton
SpecInitialise == InitInitialise /\ [][NextInitialise]_vars

InitRoute ==
    /\ SearchOff /\ IdOff /\ PresetOff /\ CallsOff
    /\ PgOff /\ SqliteOff /\ InitOff /\ RouteInit

NextRoute == HandlePost \/ ExchangeResolves \/ ExchangeRejects

\* one POST to the GDrive authorisation route
SpecRoute == InitRoute /\ [][NextRoute]_vars

----------------------------------------------------------------------------
(* Properties of the result normaliser *)

LowerHex == Digits \cup {"a","b","c","d","e","f"}

\* h is 40 lower-case hexadecimal characters
IsInfoHash(h) == Len(h) = HashLen /\ \A k \in 1..Len(h) : h[k] \in LowerHex

\* h is 40 hexadecimal characters of either case
IsHex40(h) ==
    Len(h) = HashLen /\ \A k \in 1..Len(h) : LowerChar(h[k]) \in LowerHex

\* the step pushes a record for results[idx]
Pushes == pc = "loop" /\ Len(torrents') = Len(torrents) + 1

Pushed == torrents'[Len(torrents')]

WellFormed(r) ==
    /\ "enclosure" \in DOMAIN r
    /\ \A k \in 1..Len(r.enclosure) : "url" \in DOMAIN r.enclosure[k]

\* what the loop reads from each raw result that it can iterate over
Extraction ==
    [r \in RawResults |->
        IF IterationThrows(r)
        THEN [hash |-> Undefined, url |-> Undefined]
        ELSE [hash |-> extractInfoHash(r), url |-> DownloadUrl(r)]]

HashOf(r) == Extraction[r].hash

UrlOf(r) == Extraction[r].url

\* C1: the list _searchTorrents returns holds no two records with the same
\* non-empty hash, and no two records that both lack a hash and have the
\* same downloadUrl.
C1_NoDuplicateRecords ==
    pc = "done" =>
        \A i, j \in 1..Len(torrents) :
            i < j =>
                /\ Truthy(torrents[i].hash) =>
                       torrents[i].hash # torrents[j].hash
                /\ (torrents[i].hash = Undefined
                        /\ torrents[j].hash = Undefined) =>
                       torrents[i].downloadUrl # torrents[j].downloadUrl

\* two different raw results with the same hash were searched and one
\* record was returned
C1_Witness ==
    /\ pc = "done"
    /\ Len(results) = 2
    /\ Len(torrents) = 1
    /\ results[1] # results[2]
    /\ Get(results[1], "infohash") = HashAUpper
    /\ UrlOf(results[1]) = UrlT1
    /\ ~Truthy(Get(results[2], "infohash"))
    /\ Get(results[2], "magneturl") = MagnetPrefix \o HashA \o TrackerParams
    /\ torrents[1].hash = HashA

\* C2: every returned record has a hash or a downloadUrl; a raw result that
\* yields neither never appears in the output, and every raw result that
\* yields one is represented, by itself or by an earlier result with the
\* same dedup key.
C2_KeyedResultsOnly ==
    pc = "done" =>
        /\ \A k \in 1..Len(torrents) :
               /\ Truthy(torrents[k].hash) \/ Truthy(torrents[k].downloadUrl)
               /\ \E i \in 1..Len(results) :
                      /\ Truthy(HashOf(results[i]))
                             \/ Truthy(UrlOf(results[i]))
                      /\ torrents[k].hash = HashOf(results[i])
                      /\ torrents[k].downloadUrl = UrlOf(results[i])
        /\ \A i \in 1..Len(results) :
               (Truthy(HashOf(results[i]))
                    \/ Truthy(UrlOf(results[i]))) =>
                   \E j \in 1..i : \E k \in 1..Len(torrents) :
                       /\ torrents[k].hash = HashOf(results[j])
                       /\ torrents[k].downloadUrl = UrlOf(results[j])
                       /\ (IF torrents[k].hash # Undefined
                           THEN torrents[k].hash ELSE torrents[k].downloadUrl)
                          = (IF HashOf(results[i]) # Undefined
                             THEN HashOf(results[i])
                             ELSE UrlOf(results[i]))

\* a result with neither a hash nor a URL was searched together with one
\* that has a URL only, and only the latter was returned
C2_Witness ==
    /\ pc = "done"
    /\ Len(results) = 2
    /\ HashOf(results[1]) = Undefined
    /\ ~Truthy(UrlOf(results[1]))
    /\ HashOf(results[2]) = Undefined
    /\ UrlOf(results[2]) = UrlT1
    /\ Len(torrents) = 1
    /\ torrents[1].downloadUrl = UrlT1

\* C3: for each emitted record, a raw seeder value of -1 or 999 yields an
\* absent seeders field, any other non-negative integer (0 included) is
\* passed through unchanged, and a missing or non-numeric raw value yields
\* absent, never zero.
C3_SeederSentinelLaw ==
    [][Pushes =>
        LET raw == GetJs(results[idx], "seeders")
            out == Pushed.seeders
        IN  /\ (raw.t = "number" /\ raw.v \in {-1, 999}) => out = JsUndef
            /\ (raw.t = "number" /\ raw.v >= 0 /\ raw.v # 999) =>
                   out = JsNum(raw.v)
            /\ raw.t # "number" => out = JsUndef]_vars

\* a record was returned for a raw seeder value of 999 (absent) and one for
\* a raw value of 0 (zero)
C3_Witness ==
    /\ pc = "done"
    /\ Len(results) = 2
    /\ Len(torrents) = 2
    /\ GetJs(results[1], "seeders") = JsNum(999)
    /\ torrents[1].downloadUrl = UrlT2
    /\ torrents[1].seeders = JsUndef
    /\ GetJs(results[2], "seeders") = JsNum(0)
    /\ torrents[2].hash = HashA
    /\ torrents[2].seeders = JsNum(0)

\* the characters of a magnet URI between its btih prefix and the next &
MagnetHashText(magnet) ==
    LET from == IF HasAt(magnet, 1, MagnetPrefix) THEN Len(MagnetPrefix) + 1
                ELSE Len(MagnetPrefixEncoded) + 1
        amps == {k \in from..Len(magnet) : magnet[k] = "&"}
        to   == IF amps = {} THEN Len(magnet) ELSE Min(amps) - 1
    IN  SubSeq(magnet, from, to)

IsPlainMagnet(magnet) ==
    HasAt(magnet, 1, MagnetPrefix) \/ HasAt(magnet, 1, MagnetPrefixEncoded)

\* the text the hash of a raw result is read from: the infohash field, else
\* the hash text of the magneturl field, else that of the first magnet
\* enclosure; Undefined when the result has none of them
HashText(r) ==
    IF Truthy(Get(r, "infohash")) THEN r.infohash
    ELSE IF Truthy(Get(r, "magneturl"))
         THEN IF IsPlainMagnet(r.magneturl)
              THEN MagnetHashText(r.magneturl) ELSE Undefined
    ELSE IF "enclosure" \notin DOMAIN r THEN Undefined
    ELSE LET mags == {k \in 1..Len(r.enclosure) :
                         /\ IsTorrentType(r.enclosure[k])
                         /\ "url" \in DOMAIN r.enclosure[k]
                         /\ IsPlainMagnet(r.enclosure[k].url)}
         IN  IF mags = {} THEN Undefined
             ELSE MagnetHashText(r.enclosure[Min(mags)].url)

\* C4: every hash _searchTorrents emits is absent or exactly 40 lower-case
\* hexadecimal characters, whichever of the three paths it came from; an
\* upper-case 40-hex hash is emitted lower-cased, and a 39-character or
\* non-hex candidate yields an absent hash.
C4_HashFormat ==
    [][Pushes =>
        LET text == HashText(results[idx])
            out  == Pushed.hash
        IN  /\ out = Undefined \/ IsInfoHash(out)
            /\ (text # Undefined /\ IsHex40(text)) => out = ToLowerCase(text)
            /\ (text # Undefined
                   /\ (Len(text) < HashLen
                          \/ \E k \in 1..Len(text) :
                                 k <= HashLen /\ ~IsHexChar(text[k]))) =>
                   out = Undefined]_vars

\* records were returned for an upper-case hash in the infohash field
\* (lower-cased) and for a 39-character hash in the magneturl field (absent)
C4_Witness ==
    /\ pc = "done"
    /\ Len(results) = 2
    /\ Len(torrents) = 2
    /\ Get(results[1], "infohash") = HashAUpper
    /\ torrents[1].hash = HashA
    /\ ~Truthy(Get(results[2], "infohash"))
    /\ Get(results[2], "magneturl") = MagnetPrefix \o Short39
    /\ torrents[2].hash = Undefined

\* r names hash h in its infohash field
ViaInfohashField(r, h) ==
    /\ Truthy(Get(r, "infohash"))
    /\ IsHex40(r.infohash)
    /\ ToLowerCase(r.infohash) = h

\* r has no infohash field and names hash h in a magnet link
ViaMagnetLink(r, h) ==
    /\ ~Truthy(Get(r, "infohash"))
    /\ HashText(r) # Undefined
    /\ IsHex40(HashText(r))
    /\ ToLowerCase(HashText(r)) = h

\* C5: when two raw results of one search name the same info hash through
\* different field paths (one in torznab.infohash, the other in a magnet
\* link), _searchTorrents emits exactly one record for that hash.
C5_OneRecordAcrossPaths ==
    pc = "done" =>
        \A i, j \in 1..Len(results) : \A h \in {HashA, ToLowerCase(HashBMixed)} :
            (ViaInfohashField(results[i], h) /\ ViaMagnetLink(results[j], h)) =>
                Cardinality({k \in 1..Len(torrents) : torrents[k].hash = h}) = 1

\* the hash came first in a magnet enclosure and then, in upper case, in the
\* infohash field of a result that also has a download URL
C5_Witness ==
    /\ pc = "done"
    /\ Len(results) = 2
    /\ ViaMagnetLink(results[1], HashA)
    /\ ~Truthy(Get(results[1], "magneturl"))
    /\ ViaInfohashField(results[2], HashA)
    /\ results[2].infohash = HashAUpper
    /\ UrlOf(results[2]) = UrlT1
    /\ Len(torrents) = 1
    /\ torrents[1].hash = HashA

\* C10: a malformed raw result (no enclosure list, or an enclosure entry
\* with no url) is silently dropped: the call completes normally and
\* returns the records of the well-formed results of the search.
C10_MalformedResultDropped ==
    /\ pc # "threw"
    /\ pc = "done" =>
           \A i \in 1..Len(results) :
               (WellFormed(results[i])
                    /\ (Truthy(HashOf(results[i]))
                            \/ Truthy(UrlOf(results[i])))) =>
                   \E k \in 1..Len(torrents) :
                       (IF torrents[k].hash # Undefined
                        THEN torrents[k].hash ELSE torrents[k].downloadUrl)
                       = (IF HashOf(results[i]) # Undefined
                          THEN HashOf(results[i])
                          ELSE UrlOf(results[i]))

----------------------------------------------------------------------------
(* Properties of the identifier resolver *)

\* C6: for every string S for which IdParser.parse(S, m) returns a ParsedId
\* p, parsing p.generator(p.value, p.season, p.episode) again returns a
\* ParsedId with the same type and the same value as p.
C6_RoundTrip ==
    idPc = "reparsed" =>
        /\ reparsedId # Null
        /\ reparsedId.type = parsedId.type
        /\ reparsedId.value = parsedId.value

----------------------------------------------------------------------------
(* Properties of the presets *)

CustomDone == presetPc = "done" /\ preset = "custom"

JackettDone == presetPc = "done" /\ preset = "jackett"

\* options.manifestUrl is a valid URL whose path ends in /manifest.json
GoodManifestUrl(opts) ==
    LET url == ParseUrl(Interpolate(Get(opts, "manifestUrl")))
    IN  url.valid /\ EndsWith(url.pathname, ManifestSuffix)

\* C7: CustomPreset.generateAddons yields exactly one addon descriptor when
\* options.manifestUrl is a valid URL whose path ends in /manifest.json;
\* for any other manifestUrl it fails with an error that names the Manifest
\* URL option, never with the raw exception of the URL parser, and yields
\* no descriptor.
C7_ManifestUrlLaw ==
    CustomDone =>
        IF GoodManifestUrl(options)
        THEN /\ outcome.kind = "returns"
             /\ Len(outcome.value) = 1
             /\ outcome.value[1].manifestUrl = options.manifestUrl
        ELSE /\ outcome.kind = "throws"
             /\ outcome.error.class = "Error"
             /\ \E k \in 1..Len(outcome.error.message) :
                    outcome.error.message[k] = "Manifest URL"

\* generateAddons was called with a manifestUrl that new URL rejects, and
\* threw the error of the preset
C7_Witness ==
    /\ CustomDone
    /\ Get(options, "manifestUrl") = Url_NoScheme
    /\ outcome.kind = "throws"
    /\ outcome.error = InvalidManifestUrlError(options)

UserHas(opts, f) == Truthy(Get(opts, f))

\* C8 as claimed: generateManifestUrl fails exactly when a URL and a key
\* are not both available, each from the user options or from the
\* environment defaults; whenever both are available it returns an address.
C8_FailsIffAbsentFromBoth ==
    JackettDone =>
        (outcome.kind = "throws" <=>
            ~ /\ (UserHas(options, "jackettUrl")
                     \/ UserHas(env, "BUILTIN_JACKETT_URL"))
              /\ (UserHas(options, "jackettApiKey")
                     \/ UserHas(env, "BUILTIN_JACKETT_API_KEY")))

\* C8, amended: generateManifestUrl fails exactly when no single source
\* has both credentials: when the user options give at least one of the
\* URL and the API key it fails unless they give both, and the environment
\* is not consulted; when they give neither it fails unless the environment
\* gives both.  Whenever it does not fail it returns an address.
C8_FailsIffNoCompletePair ==
    JackettDone =>
        /\ outcome.kind \in {"throws", "returns"}
        /\ outcome.kind = "throws" <=>
               IF UserHas(options, "jackettUrl")
                      \/ UserHas(options, "jackettApiKey")
               THEN ~(UserHas(options, "jackettUrl")
                          /\ UserHas(options, "jackettApiKey"))
               ELSE ~(UserHas(env, "BUILTIN_JACKETT_URL")
                          /\ UserHas(env, "BUILTIN_JACKETT_API_KEY"))

\* the user gave a URL and no key, the environment has both, and the call
\* threw
C8_Witness ==
    /\ JackettDone
    /\ Get(options, "jackettUrl") = UserUrl
    /\ ~UserHas(options, "jackettApiKey")
    /\ Get(env, "BUILTIN_JACKETT_URL") = EnvUrl
    /\ Get(env, "BUILTIN_JACKETT_API_KEY") = EnvKey
    /\ outcome.kind = "throws"

\* C9: a preset never replaces a value the user supplied with a default:
\* the URL and the API key in the Jackett address are the user's whenever
\* the user supplied them, and the timeout of the custom addon is
\* options.timeout for every numeric value supplied.
C9_UserValueNeverReplaced ==
    /\ (JackettDone /\ outcome.kind = "returns") =>
           LET config == outcome.value.configString.base64json
           IN  /\ UserHas(options, "jackettUrl") =>
                      config.url = StripTrailingSlash(options.jackettUrl)
                                       \o TorznabResultsPath
               /\ UserHas(options, "jackettApiKey") =>
                      config.apiKey = options.jackettApiKey
    /\ (CustomDone /\ outcome.kind = "returns"
            /\ GetJs(options, "timeout").t = "number") =>
           outcome.value[1].timeout = options.timeout

----------------------------------------------------------------------------
(* Properties of the hash and tracker extraction *)

\* the step finishes one iteration of the loop over results[idx]
Iterates == pc = "loop" /\ idx <= Len(results) /\ idx' = idx + 1

\* the first present source of the hash of r, in the order infohash field,
\* magneturl field, magnet enclosure
FirstSource(r) ==
    IF Truthy(Get(r, "infohash")) THEN "infohash"
    ELSE IF Truthy(Get(r, "magneturl")) THEN "magneturl"
    ELSE IF "enclosure" \in DOMAIN r
            /\ \E k \in 1..Len(r.enclosure) :
                   /\ IsTorrentType(r.enclosure[k])
                   /\ "url" \in DOMAIN r.enclosure[k]
                   /\ Includes(r.enclosure[k].url, MagnetScheme)
    THEN "enclosure"
    ELSE "none"

\* the hash that the first present source of r names when it is valid:
\* the whole infohash field, or the first HashLen characters after the
\* btih prefix of the magnet link
ExpectedHash(r) ==
    LET text == HashText(r)
        cand == IF text = Undefined THEN Undefined
                ELSE IF FirstSource(r) = "infohash" THEN text
                ELSE SubSeq(text, 1, Min({Len(text), HashLen}))
    IN  IF cand # Undefined /\ IsHex40(cand)
        THEN ToLowerCase(cand) ELSE Undefined

\* C13: the hash of a raw result is taken from the first present source in
\* the order infohash field, magneturl field, magnet enclosure; a candidate
\* that fails validation makes the hash absent without an error, and the
\* result is then kept only if it has a download URL.
C13_HashPriorityOrder ==
    [][(pc = "loop" /\ idx <= Len(results)) =>
        LET r == results[idx]
        IN  /\ Pushes =>
                   /\ Pushed.hash = ExpectedHash(r)
                   /\ ExpectedHash(r) = Undefined =>
                          Truthy(Pushed.downloadUrl)
            /\ (Iterates /\ ExpectedHash(r) # Undefined) =>
                   ExpectedHash(r) \in seenTorrents'
            /\ (FirstSource(r) # "none" /\ ExpectedHash(r) = Undefined
                    /\ WellFormed(r)) =>
                   /\ Iterates
                   /\ Pushes => Pushed.downloadUrl = DownloadUrl(r)
                   /\ ~Truthy(DownloadUrl(r)) => ~Pushes]_vars

\* a result whose infohash field is not hexadecimal and whose magneturl
\* names a valid hash was kept with its download URL and no hash, and a
\* result with a magneturl and a magnet enclosure got the hash of the
\* magneturl
C13_Witness ==
    /\ pc = "done"
    /\ Len(results) = 2
    /\ Len(torrents) = 2
    /\ Get(results[1], "infohash") = NonHex
    /\ Get(results[1], "magneturl") = MagnetPrefix \o HashA \o TrackerParams
    /\ torrents[1].hash = Undefined
    /\ torrents[1].downloadUrl = UrlT1
    /\ ~Truthy(Get(results[2], "infohash"))
    /\ Get(results[2], "magneturl") = MagnetPrefix \o HashA \o TrackerParams
    /\ FindMagnet(results[2].enclosure) # 0
    /\ torrents[2].hash = HashA

\* the magnet URL of r: the magneturl field, else the URL of the first
\* magnet enclosure; Undefined when r has neither
MagnetUrlOf(r) ==
    IF Truthy(Get(r, "magneturl")) THEN r.magneturl
    ELSE IF "enclosure" \notin DOMAIN r THEN Undefined
    ELSE LET mags == {k \in 1..Len(r.enclosure) :
                         IsMagnetEnclosure(r.enclosure[k])}
         IN  IF mags = {} THEN Undefined
             ELSE r.enclosure[Min(mags)].url

\* C14: the sources of every emitted record are the trackers parsed from
\* the magnet URL of the result, whether it is in the magneturl field or
\* in a magnet enclosure, and empty when the result has no magnet URL.
C14_TrackersFromMagnetUrl ==
    [][Pushes =>
        LET magnet == MagnetUrlOf(results[idx])
        IN  Pushed.sources = IF magnet = Undefined THEN <<>>
                             ELSE extractTrackersFromMagnet(magnet)]_vars

\* the positions of list whose result _searchTorrents keeps when it runs
\* alone: the result has a hash or a download URL, and no earlier result
\* that has one has the same dedup key
KeptAlone(list) ==
    LET keyed(k) == ~Discarded(HashOf(list[k]), UrlOf(list[k]))
        key(k)   == DedupKey(HashOf(list[k]), UrlOf(list[k]))
    IN  {k \in 1..Len(list) :
            /\ keyed(k)
            /\ \A j \in 1..(k - 1) : keyed(j) => key(j) # key(k)}

\* the records of those positions, in the order of list
OutputAlone(list) ==
    LET kept == KeptAlone(list)
        nth[n \in 1..Cardinality(kept)] ==
            CHOOSE k \in kept : Cardinality({j \in kept : j < k}) = n - 1
    IN  [n \in 1..Cardinality(kept) |->
            Record(list[nth[n]], HashOf(list[nth[n]]), UrlOf(list[nth[n]]))]

\* C15: deduplication is per invocation and first-seen-wins: at every point
\* of every interleaving of two invocations, what an invocation has emitted
\* is what it emits for the results it has consumed when it runs alone, the
\* first result of each dedup key in raw-list order, and its seen set
\* holds the keys of its own records only.
C15_DedupPerInvocation ==
    \A i \in Invocations :
        callPc[i] \in {"loop", "done"} =>
            LET consumed == SubSeq(callResults[i], 1, callIdx[i] - 1)
            IN  /\ callTorrents[i] = OutputAlone(consumed)
                /\ callSeen[i] =
                       {DedupKey(callTorrents[i][k].hash,
                                 callTorrents[i][k].downloadUrl) :
                            k \in 1..Len(callTorrents[i])}
                /\ callPc[i] = "done" => consumed = callResults[i]

\* invocation a has emitted the hash from the infohash field of its first
\* result and is still in its loop, and invocation b has returned a record
\* for the same hash, from a magneturl, after skipping its second result
C15_Witness ==
    /\ callPc["a"] = "loop"
    /\ Len(callResults["a"]) = 2
    /\ callIdx["a"] = 2
    /\ callSeen["a"] = {HashA}
    /\ callPc["b"] = "done"
    /\ Len(callResults["b"]) = 2
    /\ Get(callResults["b"][1], "magneturl")
           = MagnetPrefix \o HashA \o TrackerParams
    /\ Get(callResults["b"][2], "infohash") = HashAUpper
    /\ Len(callTorrents["b"]) = 1
    /\ callTorrents["b"][1].hash = HashA
    /\ callTorrents["b"][1].downloadUrl = Undefined

----------------------------------------------------------------------------
(* Properties of IdParser.parse *)

\* the definitions whose pattern matches s, by position in ID_PARSERS
Matching(s) ==
    {k \in 1..Len(ID_PARSERS) : Match(ID_PARSERS[k], s).matched}

\* the ParsedId that parse builds from the definition at position k
ParsedBy(k, s, media) ==
    LET parser == ID_PARSERS[k]
        groups == Match(parser, s)
    IN  /\ parsedId.type = parser.type
        /\ parsedId.externalType = parser.externalType
        /\ parsedId.value = Format(parser, groups.id)
        /\ parsedId.fullId = s
        /\ parsedId.mediaType = media
        /\ ("season" \in DOMAIN parsedId) = ("season" \in DOMAIN groups)
        /\ ("episode" \in DOMAIN parsedId) = ("episode" \in DOMAIN groups)
        /\ "season" \in DOMAIN groups => parsedId.season = groups.season
        /\ "episode" \in DOMAIN groups => parsedId.episode = groups.episode

\* C11: parse returns the ParsedId built from the first definition, in
\* declaration order, whose pattern matches: the type and externalType of
\* that definition, its formatter applied to the captured id, the input as
\* fullId, the caller's mediaType, season and episode only when captured;
\* it returns null when no definition matches.
C11_FirstMatchInOrder ==
    idPc # "input" /\ idPc # "off" =>
        IF Matching(stremioId) = {}
        THEN parsedId = Null
        ELSE \E k \in Matching(stremioId) :
                /\ \A j \in Matching(stremioId) : k <= j
                /\ ParsedBy(k, stremioId, mediaType)

\* parse was given tt:07:1:2 and returned an imdbId with value tt07,
\* season 1 and episode 2
C11_Witness ==
    /\ idPc = "parsed"
    /\ stremioId = Str_tt \o <<":","0","7",":","1",":","2">>
    /\ parsedId # Null
    /\ parsedId.type = "imdbId"
    /\ parsedId.value = JsStr(<<"t","t","0","7">>)
    /\ parsedId.season = <<"1">>
    /\ parsedId.episode = <<"2">>

\* C12: at most one definition of ID_PARSERS has a pattern that matches a
\* given string (the input, and the string a generator produced), exactly
\* one when parse recognised it, so the definition parse used is the last
\* matching one as well as the first.
C12_AtMostOneSchemeMatches ==
    /\ idPc # "off" => Cardinality(Matching(stremioId)) <= 1
    /\ idPc \in {"generated", "reparsed"} =>
           Cardinality(Matching(generated)) <= 1
    /\ (idPc \in {"parsed", "generated", "reparsed"} /\ parsedId # Null) =>
           /\ Cardinality(Matching(stremioId)) = 1
           /\ \A k \in Matching(stremioId) :
                  parsedId.type = ID_PARSERS[k].type

\* parse recognised nmtt7, which starts with the prefix of notifymoe and
\* continues with the prefix of imdb, as a notifyMoeId
C12_Witness ==
    /\ idPc = "parsed"
    /\ stremioId = Str_nm \o Str_tt \o <<"7">>
    /\ parsedId # Null
    /\ parsedId.type = "notifyMoeId"
    /\ Cardinality(Matching(stremioId)) = 1

----------------------------------------------------------------------------
(* Properties of the transactions *)

\* the positions of log that hold event
PositionsOf(log, event) == {k \in 1..Len(log) : log[k] = event}

\* C16: over any sequence of commit() and rollback() calls on a Postgres
\* transaction, including calls whose query throws, the pooled client is
\* released exactly once, when the first commit or rollback finishes, and
\* nothing is sent on the client after it has been released.
C16_ReleasedOnceAndNotUsedAfter ==
    LET releases == PositionsOf(pgLog, "release")
        finished == {c \in 1..Len(pgCalls) :
                        /\ pgCalls[c].kind \in {"commit", "rollback"}
                        /\ pgCalls[c].state \in {"returned", "threw"}}
    IN  /\ Cardinality(releases) <= 1
        /\ finished # {} => Cardinality(releases) = 1
        /\ \A k \in releases : k = Len(pgLog)

\* C17: on a SQLite transaction at most one COMMIT or ROLLBACK statement
\* is issued under any interleaving of commit(), rollback() and execute();
\* once isFinalised is set a commit or rollback issues no SQL and an
\* execute is refused without running its query; a COMMIT or ROLLBACK that
\* throws leaves the transaction not finalised.
C17_AtMostOneEndStatement ==
    /\ Cardinality(PositionsOf(sqliteLog, "COMMIT")
                       \cup PositionsOf(sqliteLog, "ROLLBACK")) <= 1
    /\ isFinalised =>
           \E c \in 1..Len(sqliteCalls) :
               /\ sqliteCalls[c].kind \in {"commit", "rollback"}
               /\ sqliteCalls[c].state = "returned"
               /\ sqliteCalls[c].sql
    /\ \A c \in 1..Len(sqliteCalls) :
           /\ sqliteCalls[c].state = "refused" =>
                  sqliteCalls[c].kind = "execute" /\ ~sqliteCalls[c].sql
           /\ (sqliteCalls[c].kind \in {"commit", "rollback"}
                   /\ ~sqliteCalls[c].sql) => isFinalised

----------------------------------------------------------------------------
(* Properties of DB.initialise *)

\* C18: provided no initialise call fails, across any interleaving of
\* initialise calls open() creates at most one pool or database handle and
\* the tables are created once; and a call made once DB.initialised is set
\* returns without touching the connection, the URI or the dialect.
C18_InitialiseIdempotent ==
    [][/\ (\A c \in 1..Len(initCalls') :
               initCalls'[c].at \in {"done", "returned"}) =>
              (Len(opened') <= 1 /\ tablesCreated' <= 1)
       /\ (initialised /\ Len(initCalls') > Len(initCalls)) =>
              /\ initCalls'[Len(initCalls')].at = "returned"
              /\ UNCHANGED <<db, uri, dialect, opened, tablesCreated>>]_vars

----------------------------------------------------------------------------
(* Properties of the GDrive authorisation route *)

\* the body of the request has no code
NoCode == body # NoBody /\ ("code" \notin DOMAIN body \/ body.code = "")

\* C19: a POST whose body has no code is answered with an error that
\* carries BAD_REQUEST and no token exchange is attempted; an error with
\* INTERNAL_SERVER_ERROR is produced only when the exchange itself failed;
\* and every request ends in exactly one of a 200 response with the tokens
\* or one error handed to next().
C19_RouteErrorCodes ==
    routePc = "done" =>
        /\ NoCode =>
               /\ exchanges = <<>>
               /\ Len(nextErrors) = 1
               /\ nextErrors[1].code = "BAD_REQUEST"
        /\ \A k \in 1..Len(nextErrors) :
               nextErrors[k].code = "INTERNAL_SERVER_ERROR" =>
                   (exchanges # <<>> /\ response = NoResponse)
        /\ \/ (response.status = 200 /\ nextErrors = <<>>)
           \/ (response = NoResponse /\ Len(nextErrors) = 1)

=============================================================================
